---- MODULE Spec2Model ----
(***************************************************************************)
(* A model of mosaic.py: average_color, resize_image, closest_image,       *)
(* create_mosaic and the module-level script that calls it and saves the   *)
(* result.                                                                 *)
(*                                                                         *)
(* Images are kept symbolically: a number of bands, a size and a rule that *)
(* gives the pixel at (x, y).  Colour values are 0, 72 or 144: every mean  *)
(* over a cell of at most 4 x 4 pixels is an integer (144 is a multiple of *)
(* every such pixel count) and np.mean is modelled without rounding.       *)
(* The assert of average_color is enabled, as it is by default.            *)
(***************************************************************************)
EXTENDS Integers, Sequences, FiniteSets, TLC

VARIABLES
    target_image_path,  \* the target file: <<bands, w, h, content>>
    tile_image_dir,     \* the tile directory: [pat, len], see listdir
    grid_size,          \* <<columns, rows>>
    pc,                 \* where the script is
    cell_width, cell_height,
    idx,                \* number of directory entries the loading loop has consumed
    tile_images, tile_colors,
    mosaic_image,       \* the canvas: [w, h, px]
    i, j,               \* the cell loop's counters
    target_color, tile_index,   \* the locals of the last cell step
    pastes,             \* history: the paste calls made so far, in order
    err,                \* the exception that ended the run: [type, line]
    saved               \* mosaic_output.jpg was written (line 115)

vars == <<target_image_path, tile_image_dir, grid_size, pc, cell_width, cell_height,
          idx, tile_images, tile_colors, mosaic_image, i, j, target_color,
          tile_index, pastes, err, saved>>

\* ---------------------------------------------------------------- bounds
MaxW == 3
MaxH == 3
MaxDir == 2
MaxTiles == 3
MaxCells == 4

\* range(1000) of the print loop
DebugPrintCount == 1000

\* ---------------------------------------------------------------- pixels
Black == <<0, 0, 0>>
White == <<144, 144, 144>>
Red   == <<144, 0, 0>>
Green == <<0, 144, 0>>

\* The pixel patterns of the target images: 2 x 2 blocks of four colours, and
\* a checkerboard of single pixels.  Uniform is the content of a tile file.
Uniform == 0
Quad    == 1
Checker == 2

\* The RGB value a pattern gives at absolute position (x, y).
PatternColor(pat, x, y) ==
    CASE pat = Quad    -> IF (x \div 2) % 2 = 0
                          THEN (IF (y \div 2) % 2 = 0 THEN Black ELSE Red)
                          ELSE (IF (y \div 2) % 2 = 0 THEN Green ELSE White)
      [] pat = Checker -> IF (x + y) % 2 = 0 THEN Black ELSE White
      [] OTHER         -> Black

\* The channel values stored for an RGB value in an image with that many
\* bands: 1 is mode L, 3 is RGB, 4 is RGBA.
BandPixel(bands, rgb) ==
    CASE bands = 1 -> <<rgb[1]>>
      [] bands = 4 -> rgb \o <<255>>
      [] OTHER     -> rgb

\* An image is <<bands, w, h, content>>; its content is a uniform fill,
\* <<Uniform, channel values>>, or a window on a pattern, <<pattern, ox, oy>>.
\* Zero bands stand for a file that is no image.
Bands(image)  == image[1]
Width(image)  == image[2]
Height(image) == image[3]

FillImage(bands, w, h, fill) == <<bands, w, h, <<Uniform>> \o fill>>

PatternImage(bands, w, h, pat) == <<bands, w, h, <<pat, 0, 0>> >>

\* np.array(image)[y][x]
PixelAt(image, x, y) ==
    LET content == image[4]
    IN  IF content[1] = Uniform THEN Tail(content)
        ELSE BandPixel(Bands(image), PatternColor(content[1], content[2] + x, content[3] + y))

\* np.array(image).shape
Shape(image) ==
    IF Bands(image) = 1 THEN <<Height(image), Width(image)>>
    ELSE <<Height(image), Width(image), Bands(image)>>

RECURSIVE SumOver(_, _, _)
\* the sum of channel c of the pixels in the set ps
SumOver(image, ps, c) ==
    IF ps = {} THEN 0
    ELSE LET p == CHOOSE q \in ps : TRUE
         IN  PixelAt(image, p[1], p[2])[c] + SumOver(image, ps \ {p}, c)

Pixels(w, h) == (0 .. w - 1) \X (0 .. h - 1)

\* the value average_color raises instead of returning
Raised == <<>>

\* the per-channel mean of an array of the given shape
Mean(image, gray) ==
    LET ps == Pixels(Width(image), Height(image))
    IN  [c \in 1 .. 3 |-> SumOver(image, ps, IF gray THEN 1 ELSE c) \div Cardinality(ps)]

AverageIgnoringAlpha(image) == Mean(image, Len(Shape(image)) = 2)

\* average_color: the per-channel mean, a grayscale array stacked to three
\* channels first, a four-channel array rejected by the assert.
average_color(image) ==
    LET gray     == Len(Shape(image)) = 2
        channels == IF gray THEN 3 ELSE Shape(image)[3]
    IN  IF channels = 4 THEN Raised ELSE Mean(image, gray)

\* Image.resize rejects a size with a side below 1: Pillow raises ValueError,
\* "height and width must be > 0".
ResizeRaises(size) == size[1] < 1 \/ size[2] < 1

ResizeKeepingSize(image, size) == image

\* resize_image: the image at the requested size.  Tile files are uniformly
\* coloured, and so is every resampling of them.
resize_image(image, size) == <<Bands(image), size[1], size[2], image[4]>>

\* image.crop((left, top, right, bottom)) of a pattern image
Crop(image, left, top, right, bottom) ==
    <<Bands(image), right - left, bottom - top,
      <<image[4][1], image[4][2] + left, image[4][3] + top>> >>

\* ---------------------------------------------------------------- matching
\* np.sum((tile_color - target_color) ** 2); np.sqrt is monotone and is left out
Distance2(tile_color, color) ==
    (tile_color[1] - color[1]) * (tile_color[1] - color[1])
  + (tile_color[2] - color[2]) * (tile_color[2] - color[2])
  + (tile_color[3] - color[3]) * (tile_color[3] - color[3])

NearerOrLater(colors, color, l, r) ==
    IF Distance2(colors[r], color) <= Distance2(colors[l], color) THEN r ELSE l

\* the argmin of two positions l < r: the later one only when strictly nearer
Nearer(colors, color, l, r) ==
    IF Distance2(colors[r], color) < Distance2(colors[l], color) THEN r ELSE l

RECURSIVE Argmin(_, _, _, _)
\* np.argmin over positions lo .. hi, by halves: the first occurrence of the
\* minimum is returned
Argmin(colors, color, lo, hi) ==
    IF lo = hi THEN lo
    ELSE Nearer(colors, color,
                Argmin(colors, color, lo, (lo + hi) \div 2),
                Argmin(colors, color, ((lo + hi) \div 2) + 1, hi))

\* closest_image: the 0-based index np.argmin returns
closest_image(colors, color) == Argmin(colors, color, 1, Len(colors)) - 1

\* ---------------------------------------------------------------- files
\* A file that Image.open cannot identify
NotImage == FillImage(0, 0, 0, <<>>)

\* Image.open raises UnidentifiedImageError
OpenRaises(file) == Bands(file) = 0

\* The tile files: uniformly coloured 2 x 2 images, and a file that is no image
TileRGB(rgb) == FillImage(3, 2, 2, rgb)
TileGray     == FillImage(1, 2, 2, <<72>>)
TileRGBA     == FillImage(4, 2, 2, <<144, 0, 0, 255>>)

TileFiles == {TileRGB(Black), TileRGB(White), TileGray, TileRGBA, NotImage}

\* A directory is a pattern of files repeated up to a length:
\* os.listdir(dir)[k] for k in 0 .. len - 1
listdir(dir, k) == dir.pat[(k % Len(dir.pat)) + 1]

Directory(pat, len) == [pat |-> pat, len |-> len]

SeqsUpTo(S, n) == UNION {[1 .. m -> S] : m \in 0 .. n}

ShortDirs == {Directory(p, Len(p)) : p \in SeqsUpTo(TileFiles, MaxDir)}

\* four tiles of pairwise distinct colours
FourTiles == <<TileRGB(Black), TileRGB(Red), TileRGB(Green), TileRGB(White)>>

\* five of the six files of this pattern are accepted: 1200 entries leave
\* exactly 1000 tiles, 1199 entries leave 999
MixedTiles == <<TileRGB(Black), TileRGBA, TileRGB(White), TileRGB(Red), TileRGB(Green), TileGray>>

Targets(bands, pats) ==
    {PatternImage(r[1], r[2], r[3], r[4]) : r \in bands \X (1 .. MaxW) \X (1 .. MaxH) \X pats}

Grids == (1 .. MaxW + 1) \X (1 .. MaxH + 1)

FitGrids == {g \in Grids : g[1] <= MaxW /\ g[2] <= MaxH}

\* The runs of the short directories: every target size and grid, a target
\* that is no image, and the 4 x 4 target of four uniform quadrants with four
\* matching tiles.  A run is <<target, directory, grid_size>>.
LoadRuns ==
    (Targets({3}, {Quad}) \X ShortDirs \X Grids)
    \cup ({NotImage} \X {Directory(<<>>, 0), Directory(FourTiles, 4)} \X {<<1, 1>>})
    \cup ({PatternImage(3, 4, 4, Quad)} \X {Directory(FourTiles, 4)} \X {<<2, 2>>})
    \cup (Targets({3}, {Quad}) \X {Directory(MixedTiles, 12)} \X {<<1, 1>>})

\* The runs of a directory that leaves 1000 tiles
LongRuns ==
    \* every target size and grid
    (Targets({3}, {Quad, Checker}) \X {Directory(MixedTiles, 1200)} \X Grids)
    \* a grayscale target and a target with an alpha channel
    \cup ({PatternImage(1, MaxW, MaxH, Checker), PatternImage(4, MaxW, MaxH, Checker)}
            \X {Directory(MixedTiles, 1200)} \X Grids)
    \* one tile short of 1000, and one more than 1000
    \cup ({PatternImage(3, 1, 1, Checker)}
            \X {Directory(MixedTiles, 1199), Directory(MixedTiles, 1201)} \X {<<1, 1>>})

Runs == LoadRuns \cup LongRuns

\* The runs whose cells are taken in every order: at most MaxCells cells
AnyOrderRuns ==
    {PatternImage(3, MaxW, MaxH, Quad), PatternImage(3, MaxW, MaxH, Checker)}
        \X {Directory(MixedTiles, 1200)}
        \X {g \in FitGrids : g[1] * g[2] <= MaxCells}

NoCanvas == [w |-> 0, h |-> 0, px |-> [p \in {} |-> Black]]
NoError  == [type |-> "none", line |-> 0]

InitRun(runs) ==
    /\ \E r \in runs :
          /\ target_image_path = r[1]
          /\ tile_image_dir = r[2]
          /\ grid_size = r[3]
    /\ pc = "main"
    /\ cell_width = 0
    /\ cell_height = 0
    /\ idx = 0
    /\ tile_images = <<>>
    /\ tile_colors = <<>>
    /\ mosaic_image = NoCanvas
    /\ i = 0
    /\ j = 0
    /\ target_color = Black
    /\ tile_index = 0
    /\ pastes = <<>>
    /\ err = NoError
    /\ saved = FALSE

Init == InitRun(Runs)

\* an uncaught exception ends the script
Raise(type, line) ==
    /\ pc' = "failed"
    /\ err' = [type |-> type, line |-> line]

\* lines 36-42: open the target, derive the cell size
LoadTarget ==
    /\ pc = "main"
    /\ IF OpenRaises(target_image_path)
       THEN /\ Raise("UnidentifiedImageError", 36)
            /\ UNCHANGED <<cell_width, cell_height>>
       ELSE /\ cell_width' = Width(target_image_path) \div grid_size[1]
            /\ cell_height' = Height(target_image_path) \div grid_size[2]
            /\ pc' = "load_tiles"
            /\ err' = err
    /\ UNCHANGED <<target_image_path, tile_image_dir, grid_size, idx, tile_images,
                   tile_colors, mosaic_image, i, j, target_color, tile_index,
                   pastes, saved>>

LoadTileImageFirst ==
    /\ pc = "load_tiles"
    /\ idx < tile_image_dir.len
    /\ LET file == listdir(tile_image_dir, idx)
           resized_tile == resize_image(file, <<cell_width, cell_height>>)
           color == average_color(resized_tile)
       IN  IF OpenRaises(file)
           THEN /\ Raise("UnidentifiedImageError", 52)
                /\ UNCHANGED <<idx, tile_images, tile_colors>>
           ELSE IF ResizeRaises(<<cell_width, cell_height>>)
           THEN /\ Raise("ValueError", 55)
                /\ UNCHANGED <<idx, tile_images, tile_colors>>
           ELSE /\ tile_images' = Append(tile_images, resized_tile)
                /\ tile_colors' = IF color = Raised THEN tile_colors
                                  ELSE Append(tile_colors, color)
                /\ idx' = idx + 1
                /\ UNCHANGED <<pc, err>>
    /\ UNCHANGED <<target_image_path, tile_image_dir, grid_size, cell_width,
                   cell_height, mosaic_image, i, j, target_color, tile_index,
                   pastes, saved>>

\* lines 50-63: one iteration of the loading loop
LoadTile ==
    /\ pc = "load_tiles"
    /\ idx < tile_image_dir.len
    /\ LET file == listdir(tile_image_dir, idx)
           resized_tile == resize_image(file, <<cell_width, cell_height>>)
           color == average_color(resized_tile)
       IN  IF OpenRaises(file)
           THEN /\ Raise("UnidentifiedImageError", 52)
                /\ UNCHANGED <<idx, tile_images, tile_colors>>
           ELSE IF ResizeRaises(<<cell_width, cell_height>>)
           THEN /\ Raise("ValueError", 55)
                /\ UNCHANGED <<idx, tile_images, tile_colors>>
           ELSE IF color = Raised
           THEN \* caught by the except clause: the tile is skipped
                /\ idx' = idx + 1
                /\ UNCHANGED <<pc, err, tile_images, tile_colors>>
           ELSE /\ tile_colors' = Append(tile_colors, color)
                /\ tile_images' = Append(tile_images, resized_tile)
                /\ idx' = idx + 1
                /\ UNCHANGED <<pc, err>>
    /\ UNCHANGED <<target_image_path, tile_image_dir, grid_size, cell_width,
                   cell_height, mosaic_image, i, j, target_color, tile_index,
                   pastes, saved>>

\* Image.new('RGB', size): a black canvas
NewImage(w, h) == [w |-> w, h |-> h, px |-> [p \in Pixels(w, h) |-> Black]]

PrintAll(colors) == Len(colors)

PrintOneLess(colors) == DebugPrintCount - 1

\* the number of tile_colors[i] the print loop of lines 66-67 reads
PrintCount(colors) == DebugPrintCount

\* lines 65-71: the loop is over; print 1000 tile colours, create the canvas
PrintTileColors ==
    /\ pc = "load_tiles"
    /\ idx = tile_image_dir.len
    /\ IF PrintCount(tile_colors) > Len(tile_colors)
       THEN /\ Raise("IndexError", 67)
            /\ UNCHANGED mosaic_image
       ELSE /\ mosaic_image' = NewImage(Width(target_image_path), Height(target_image_path))
            /\ pc' = "cells"
            /\ err' = err
    /\ UNCHANGED <<target_image_path, tile_image_dir, grid_size, cell_width,
                   cell_height, idx, tile_images, tile_colors, i, j, target_color,
                   tile_index, pastes, saved>>

\* the RGB value written for a pixel of a pasted image
AsRGB(image, x, y) ==
    LET v == PixelAt(image, x, y)
    IN  IF Bands(image) = 1 THEN <<v[1], v[1], v[1]>> ELSE <<v[1], v[2], v[3]>>

PasteTransposed(canvas, image, left, top) ==
    [canvas EXCEPT !.px =
        [p \in Pixels(canvas.w, canvas.h) |->
            IF /\ top <= p[1] /\ p[1] < top + Width(image)
               /\ left <= p[2] /\ p[2] < left + Height(image)
            THEN AsRGB(image, p[1] - top, p[2] - left)
            ELSE canvas.px[p]]]

\* canvas.paste(image, (left, top)): the image's pixels, clipped to the canvas
Paste(canvas, image, left, top) ==
    [canvas EXCEPT !.px =
        [p \in Pixels(canvas.w, canvas.h) |->
            IF /\ left <= p[1] /\ p[1] < left + Width(image)
               /\ top <= p[2] /\ p[2] < top + Height(image)
            THEN AsRGB(image, p[1] - left, p[2] - top)
            ELSE canvas.px[p]]]

\* lines 78-85: the average colour of the cell (a, b) of the target
CellColor(a, b) ==
    average_color(Crop(target_image_path, a * cell_width, b * cell_height,
                       (a + 1) * cell_width, (b + 1) * cell_height))

\* lines 78-92 for the cell (a, b)
CellBody(a, b) ==
    LET left   == a * cell_width
        top    == b * cell_height
    IN  \E color \in {CellColor(a, b)} :
          IF color = Raised
          THEN /\ Raise("AssertionError", 17)
               /\ UNCHANGED <<target_color, tile_index, mosaic_image, pastes>>
          ELSE IF Len(tile_colors) = 0
          THEN \* an empty array does not broadcast against a colour
               /\ Raise("ValueError", 28)
               /\ UNCHANGED <<target_color, tile_index, mosaic_image, pastes>>
          ELSE \E index \in {closest_image(tile_colors, color)} :
               LET best_tile == tile_images[index + 1]
               IN  /\ target_color' = color
                   /\ tile_index' = index
                   /\ mosaic_image' = Paste(mosaic_image, best_tile, left, top)
                   /\ pastes' = Append(pastes,
                                       [cell |-> <<a, b>>, at |-> <<left, top>>,
                                        size |-> <<Width(best_tile), Height(best_tile)>>,
                                        tile |-> index])
                   /\ UNCHANGED <<pc, err>>

\* lines 75-92: one iteration of the cell loop, column by column
CellStep ==
    /\ pc = "cells"
    /\ i < grid_size[1]
    /\ CellBody(i, j)
    /\ IF pc' = "failed" THEN UNCHANGED <<i, j>>
       ELSE IF j + 1 < grid_size[2]
       THEN i' = i /\ j' = j + 1
       ELSE i' = i + 1 /\ j' = 0
    /\ UNCHANGED <<target_image_path, tile_image_dir, grid_size, cell_width,
                   cell_height, idx, tile_images, tile_colors, saved>>

\* lines 97-98: the loops are over, the canvas is returned
ReturnMosaic ==
    /\ pc = "cells"
    /\ i = grid_size[1]
    /\ pc' = "returned"
    /\ UNCHANGED <<target_image_path, tile_image_dir, grid_size, cell_width,
                   cell_height, idx, tile_images, tile_colors, mosaic_image, i, j,
                   target_color, tile_index, pastes, err, saved>>

\* lines 112-115: the script shows and saves the canvas create_mosaic returned
SaveMosaic ==
    /\ pc = "returned"
    /\ pc' = "saved"
    /\ saved' = TRUE
    /\ UNCHANGED <<target_image_path, tile_image_dir, grid_size, cell_width,
                   cell_height, idx, tile_images, tile_colors, mosaic_image, i, j,
                   target_color, tile_index, pastes, err>>

Next ==
    \/ LoadTarget
    \/ LoadTile
    \/ PrintTileColors
    \/ CellStep
    \/ ReturnMosaic
    \/ SaveMosaic

Spec == Init /\ [][Next]_vars

\* ---------------------------------------------------------------- loading only
InitLoad == InitRun(LoadRuns)

NextLoad ==
    \/ LoadTarget
    \/ LoadTile
    \/ PrintTileColors

SpecLoad == InitLoad /\ [][NextLoad]_vars

\* ---------------------------------------------------------------- cells in any order
Pasted(cell) == \E k \in 1 .. Len(pastes) : pastes[k].cell = cell

GridCells == (0 .. grid_size[1] - 1) \X (0 .. grid_size[2] - 1)

\* lines 77-92 for any cell not yet pasted
CellAnyOrder ==
    /\ pc = "cells"
    /\ \E cell \in GridCells :
          /\ ~Pasted(cell)
          /\ CellBody(cell[1], cell[2])
          /\ i' = cell[1]
          /\ j' = cell[2]
    /\ UNCHANGED <<target_image_path, tile_image_dir, grid_size, cell_width,
                   cell_height, idx, tile_images, tile_colors, saved>>

\* lines 97-98, once every cell is pasted
ReturnAnyOrder ==
    /\ pc = "cells"
    /\ \A cell \in GridCells : Pasted(cell)
    /\ pc' = "returned"
    /\ UNCHANGED <<target_image_path, tile_image_dir, grid_size, cell_width,
                   cell_height, idx, tile_images, tile_colors, mosaic_image, i, j,
                   target_color, tile_index, pastes, err, saved>>

InitAnyOrder == InitRun(AnyOrderRuns)

NextAnyOrder ==
    \/ LoadTarget
    \/ LoadTile
    \/ PrintTileColors
    \/ CellAnyOrder
    \/ ReturnAnyOrder
    \/ SaveMosaic

SpecAnyOrder == InitAnyOrder /\ [][NextAnyOrder]_vars

\* ---------------------------------------------------------------- closest_image alone
Gray == <<72, 72, 72>>
DarkRed == <<72, 0, 0>>

Colors == {Black, White, Red, Green, Gray, DarkRed}

InitClosest ==
    /\ target_image_path = NotImage
    /\ tile_image_dir = Directory(<<>>, 0)
    /\ grid_size = <<1, 1>>
    /\ pc = "closest_image"
    /\ cell_width = 0
    /\ cell_height = 0
    /\ idx = 0
    /\ tile_images = <<>>
    /\ tile_colors \in SeqsUpTo(Colors, MaxTiles) \ {<<>>}
    /\ mosaic_image = NoCanvas
    /\ i = 0
    /\ j = 0
    /\ target_color \in Colors
    /\ tile_index = 0
    /\ pastes = <<>>
    /\ err = NoError
    /\ saved = FALSE

\* a call of closest_image(tile_colors, target_color)
CallClosestImage ==
    /\ pc = "closest_image"
    /\ tile_index' = closest_image(tile_colors, target_color)
    /\ pc' = "closest_image_done"
    /\ UNCHANGED <<target_image_path, tile_image_dir, grid_size, cell_width,
                   cell_height, idx, tile_images, tile_colors, mosaic_image, i, j,
                   target_color, pastes, err, saved>>

NextClosest == CallClosestImage

SpecClosest == InitClosest /\ [][NextClosest]_vars

\* ---------------------------------------------------------------- properties
Terminal == pc \in {"failed", "returned", "saved"}

\* the loading loop has consumed the whole directory and the script went on
LoadingEnded ==
    /\ pc \notin {"main", "load_tiles"}
    /\ err.line # 36
    /\ idx = tile_image_dir.len

\* C1: closest_image returns the smallest index whose tile colour is at
\* minimal Euclidean distance from the target colour: no tile is strictly
\* nearer, and every earlier tile is strictly farther.
C1_StableArgmin ==
    pc = "closest_image_done" =>
        /\ tile_index + 1 \in 1 .. Len(tile_colors)
        /\ \A m \in 1 .. Len(tile_colors) :
              Distance2(tile_colors[m], target_color)
                 >= Distance2(tile_colors[tile_index + 1], target_color)
        /\ \A m \in 1 .. tile_index :
              Distance2(tile_colors[m], target_color)
                 > Distance2(tile_colors[tile_index + 1], target_color)

\* a call that had to break a tie between two tiles of different colours, the
\* chosen one not being the first of the sequence
C1_TieBroken ==
    /\ pc = "closest_image_done"
    /\ tile_index > 0
    /\ \E m \in tile_index + 2 .. Len(tile_colors) :
          /\ tile_colors[m] # tile_colors[tile_index + 1]
          /\ Distance2(tile_colors[m], target_color)
                = Distance2(tile_colors[tile_index + 1], target_color)

\* C2: with cells of at least one pixel, no failure of a tile file inside
\* the loading loop (lines 50-63) ends the run: the tile is skipped and the
\* loop goes on.
C2_TileFailureSkipped ==
    (cell_width >= 1 /\ cell_height >= 1) =>
        ~(pc = "failed" /\ err.line \in 50 .. 63)

\* the entries 0 .. n-1 of the directory that the loading loop accepts
RECURSIVE Accepted(_)
Accepted(n) ==
    IF n = 0 THEN <<>>
    ELSE LET file == listdir(tile_image_dir, n - 1)
             tile == <<Bands(file), cell_width, cell_height, file[4]>>
         IN  IF Bands(file) \in {1, 3} THEN Append(Accepted(n - 1), tile)
             ELSE Accepted(n - 1)

\* C3: after each directory entry, tile_images and tile_colors have the same
\* length, tile_colors[k] is the average colour of tile_images[k], and the
\* lists hold the tiles of the entries profiled with success, in order, and
\* no other.
C3_ListsCoIndexed ==
    /\ Len(tile_images) = Len(tile_colors)
    /\ \A k \in 1 .. Len(tile_images) :
          /\ Bands(tile_images[k]) # 4
          /\ tile_colors[k] = Mean(tile_images[k], Bands(tile_images[k]) = 1)
    /\ pc = "load_tiles" => tile_images = Accepted(idx)

\* a failing tile between two accepted ones has been processed
C3_MixedTilesLoaded ==
    /\ pc = "load_tiles"
    /\ idx >= 3
    /\ Len(tile_images) = 2
    /\ Bands(listdir(tile_image_dir, 1)) = 4

\* C4: when loading ends with an empty Tile Set, the run has failed, at the
\* read of tile_colors[0] that precedes the creation of the canvas: no cell
\* is matched or pasted, no canvas exists and the output is not written.
C4_EmptyTileSetFails ==
    (LoadingEnded /\ Len(tile_colors) = 0) =>
        /\ pc = "failed"
        /\ err = [type |-> "IndexError", line |-> 67]
        /\ pastes = <<>>
        /\ mosaic_image = NoCanvas
        /\ ~saved

\* the run of a directory whose tiles were all skipped has failed
C4_AllTilesSkipped ==
    /\ LoadingEnded
    /\ pc = "failed"
    /\ idx > 0
    /\ Len(tile_colors) = 0

ZeroCell ==
    \/ grid_size[1] > Width(target_image_path)
    \/ grid_size[2] > Height(target_image_path)

\* C5: when the grid exceeds the target in a dimension, the run ends in a
\* failure that reports the cell size, whatever the tile directory holds.
C5_ZeroCellRejected ==
    (ZeroCell /\ Terminal /\ err.line # 36) =>
        /\ pc = "failed"
        /\ err.type = "ValueError"

\* every cell of the grid is uniformly coloured
UniformCells ==
    \A cell \in GridCells :
        \A p \in Pixels(cell_width, cell_height) :
            PixelAt(target_image_path, cell[1] * cell_width + p[1],
                    cell[2] * cell_height + p[2])
              = PixelAt(target_image_path, cell[1] * cell_width, cell[2] * cell_height)

\* the spec's case: grid (2, 2), four tiles of pairwise distinct colours,
\* each cell uniform and of the colour of exactly one tile
ExactTiles ==
    /\ Bands(target_image_path) = 3
    /\ grid_size = <<2, 2>>
    /\ cell_width >= 1 /\ cell_height >= 1
    /\ LoadingEnded
    /\ Len(tile_colors) = 4
    /\ \A k, m \in 1 .. 4 : k # m => tile_colors[k] # tile_colors[m]
    /\ UniformCells
    /\ \A cell \in GridCells : \E k \in 1 .. 4 : tile_colors[k] = CellColor(cell[1], cell[2])

\* C6: in that case create_mosaic completes, and the canvas holds at each
\* cell's offset the tile whose colour is the cell's.
C6_ExactTilesPlaced ==
    (ExactTiles /\ Terminal) =>
        /\ pc # "failed"
        /\ \A cell \in GridCells :
              mosaic_image.px[<<cell[1] * cell_width, cell[2] * cell_height>>]
                 = CellColor(cell[1], cell[2])

CellRect(cell) ==
    {p \in Pixels(Width(target_image_path), Height(target_image_path)) :
        /\ cell[1] * cell_width <= p[1] /\ p[1] < (cell[1] + 1) * cell_width
        /\ cell[2] * cell_height <= p[2] /\ p[2] < (cell[2] + 1) * cell_height}

\* the pixels a logged paste wrote
Covered(paste) ==
    {p \in Pixels(mosaic_image.w, mosaic_image.h) :
        /\ paste.at[1] <= p[1] /\ p[1] < paste.at[1] + paste.size[1]
        /\ paste.at[2] <= p[2] /\ p[2] < paste.at[2] + paste.size[2]}

\* C8: every paste covers exactly the rectangle of its cell, inside the
\* canvas; the pastes do not overlap; at the return each cell has been pasted
\* exactly once; a pixel holds the tile of the cell pasted over it, and a
\* pixel beyond columns*cell_width or rows*cell_height is never written and
\* is blank.
C8_PastesCoverCells ==
    pc \in {"cells", "returned", "saved"} =>
        /\ mosaic_image.w = Width(target_image_path)
        /\ mosaic_image.h = Height(target_image_path)
        /\ \A k \in 1 .. Len(pastes) :
              /\ pastes[k].cell \in GridCells
              /\ Covered(pastes[k]) = CellRect(pastes[k].cell)
              /\ Cardinality(CellRect(pastes[k].cell)) = cell_width * cell_height
              /\ \A m \in 1 .. Len(pastes) :
                    m # k => /\ pastes[m].cell # pastes[k].cell
                             /\ Covered(pastes[m]) \cap Covered(pastes[k]) = {}
              /\ \A p \in CellRect(pastes[k].cell) :
                    mosaic_image.px[p] = AsRGB(tile_images[pastes[k].tile + 1], 0, 0)
        /\ \A p \in Pixels(mosaic_image.w, mosaic_image.h) :
              (p[1] >= grid_size[1] * cell_width \/ p[2] >= grid_size[2] * cell_height)
                 => /\ mosaic_image.px[p] = Black
                    /\ \A k \in 1 .. Len(pastes) : p \notin Covered(pastes[k])
        /\ pc \in {"returned", "saved"} =>
              /\ Len(pastes) = grid_size[1] * grid_size[2]
              /\ \A cell \in GridCells : Pasted(cell)

\* a returned canvas of several cells with a column and a row of remainder
\* pixels, and a pasted tile that is not black
C8_RemainderLeftBlank ==
    /\ pc = "returned"
    /\ grid_size[1] > 1 /\ grid_size[2] > 1
    /\ grid_size[1] * cell_width < mosaic_image.w
    /\ grid_size[2] * cell_height < mosaic_image.h
    /\ \E p \in Pixels(mosaic_image.w, mosaic_image.h) : mosaic_image.px[p] # Black

\* the cells in the order of lines 75-76: column by column
ColumnMajor ==
    [k \in 1 .. grid_size[1] * grid_size[2] |->
        <<(k - 1) \div grid_size[2], (k - 1) % grid_size[2]>>]

\* the tile that lines 85-89 choose for a cell
TileFor(cell) ==
    CHOOSE tile \in {tile_images[closest_image(tile_colors, color) + 1] :
                        color \in {CellColor(cell[1], cell[2])}} : TRUE

RECURSIVE ColumnMajorTiles(_)
\* the tiles chosen for the first n cells of that order
ColumnMajorTiles(n) ==
    IF n = 0 THEN <<>>
    ELSE Append(ColumnMajorTiles(n - 1), TileFor(ColumnMajor[n]))

RECURSIVE ColumnMajorPixel(_, _, _)
\* the value of pixel p once the first n of these tiles have been pasted in
\* that order on a black canvas: that of the last paste that covers p
ColumnMajorPixel(p, tiles, n) ==
    IF n = 0 THEN Black
    ELSE IF /\ ColumnMajor[n][1] * cell_width <= p[1]
            /\ p[1] < ColumnMajor[n][1] * cell_width + Width(tiles[n])
            /\ ColumnMajor[n][2] * cell_height <= p[2]
            /\ p[2] < ColumnMajor[n][2] * cell_height + Height(tiles[n])
         THEN AsRGB(tiles[n], p[1] - ColumnMajor[n][1] * cell_width,
                    p[2] - ColumnMajor[n][2] * cell_height)
         ELSE ColumnMajorPixel(p, tiles, n - 1)

\* C9: whatever the order in which the cells were processed, the returned
\* canvas is the one the column-by-column order of the code gives.
C9_OrderIndependent ==
    pc = "returned" =>
        \A tiles \in {ColumnMajorTiles(grid_size[1] * grid_size[2])} :
            /\ mosaic_image.w = Width(target_image_path)
            /\ mosaic_image.h = Height(target_image_path)
            /\ \A p \in Pixels(mosaic_image.w, mosaic_image.h) :
                  mosaic_image.px[p] = ColumnMajorPixel(p, tiles, Len(tiles))

\* a canvas returned after its cells were pasted in an order that is not
\* column by column, with two different tiles
C9_OtherOrderReturned ==
    /\ pc = "returned"
    /\ Len(pastes) >= 4
    /\ [k \in 1 .. Len(pastes) |-> pastes[k].cell] # ColumnMajor
    /\ \E k, m \in 1 .. Len(pastes) : pastes[k].tile # pastes[m].tile

\* C10: the cell loop is reached, and a canvas exists, only with 1000 tiles
\* or more; with fewer the run fails at line 67 before the canvas is created
\* and pastes no cell.
C10_ThousandTilesNeeded ==
    /\ (pc \in {"cells", "returned", "saved"} \/ mosaic_image # NoCanvas \/ pastes # <<>>)
          => Len(tile_colors) >= DebugPrintCount
    /\ (LoadingEnded /\ Len(tile_colors) < DebugPrintCount)
          => /\ pc = "failed"
             /\ err = [type |-> "IndexError", line |-> 67]
             /\ mosaic_image = NoCanvas
             /\ pastes = <<>>

\* a run that failed with 999 tiles loaded
C10_OneTileShort ==
    /\ pc = "failed"
    /\ err = [type |-> "IndexError", line |-> 67]
    /\ Len(tile_colors) = DebugPrintCount - 1

====
